---------------------------- MODULE Spec2Model ----------------------------
(***************************************************************************)
(* State-machine model of the 1D gantry scripts:                           *)
(*   - Aruco_DeltaX_Test_V2.py      (specifications Spec, SpecBest and     *)
(*                                   SpecWide)                             *)
(*   - old/Aruco_DeltaX_Test.py     (specification SpecOld)                *)
(*   - UDP_Send_DirectionSwitch.py  (specification SpecSwitch)             *)
(*   - old/UDP_Receive.py           (specification SpecRecvOld)            *)
(*   - UDP_Receive_int32.py         (specification SpecInt32)              *)
(*                                                                         *)
(* Units.  A marker centroid cx and the frame width w are whole pixels.    *)
(* The code's deltaX = cx - w/2 may be a half pixel, so the model carries  *)
(* TWICE that value (an integer) wherever the source carries deltaX:       *)
(* field 3 of an item, of `best` and of a log row is 2*deltaX.             *)
(* Comparisons are rescaled accordingly (abs(deltaX) < 5 is |2*deltaX| <   *)
(* 10) and the uint8 encoding divides by w instead of by w/2.              *)
(*                                                                         *)
(* A datagram attempt is a record [port, payload, ok, mode]: payload is    *)
(* the sequence of bytes handed to sendto, ok tells whether sendto         *)
(* returned (TRUE) or raised (FALSE), mode is the mode variable's value at *)
(* the time of the call.  `wire` holds the attempts made since the last    *)
(* frame read or key poll of the main loop, whichever came later.          *)
(***************************************************************************)
EXTENDS Integers, Sequences, FiniteSets, TLC

VARIABLES
    pc,             \* position of the script
    width,          \* w of the frames the camera delivers
    clock,          \* time.time(), counted in frames read by the main loop
    current_mode,   \* V2: current_mode
    selected_ids,   \* selected_ids (V2: a list used only through `in`,
                    \*   truthiness and filtering, so modelled as its set)
    log,            \* the DataFrame rows: <<id, marker_x, 2*deltaX>>
    last_send_time, \* last_send_time
    items,          \* the frame's items list: <<id, cx, 2*deltaX>>
    best,           \* <<>> (None) or <<best_id, best_cx, 2*best_deltaX>>
    pending,        \* payload of the delta-port sendto this frame still
                    \*   has to make (<<>>: none)
    detect_ran,     \* detectMarkers was called in the current frame
    key,            \* main loop: key, the last waitKey(1) & 0xFF
    wire,           \* datagram attempts since the last frame read / key poll
    found_ids,      \* select_targets: found_ids
    sel_reads,      \* select_targets: frames read by the running call
    csv_writes,     \* number of log.to_csv calls
    failed,         \* "none", or which camera call failed
    gamemode,       \* old: gamemode
    last_gamemode,  \* old: last_gamemode
    dead,           \* old: dead (a function on the selected ids)
    value,          \* switch: value
    send_count,     \* switch: send_count
    rx_data,        \* receivers: data of the last recvfrom (<<>>: none yet)
    rx_report,      \* receivers: what was printed for it
    announced,      \* V2: byte of the last mode datagram attempted (0: none)
    send_raised,    \* V2: the most recent sendto raised
    last_zone,      \* old: per id, "in"/"out" of the dead zone when it was
                    \*   last the best marker ("never": not yet)
    best_since_sel  \* old: ids that were best since the last selection

vars == <<pc, width, clock, current_mode, selected_ids, log, last_send_time,
          items, best, pending, detect_ran, key, wire, found_ids, sel_reads,
          csv_writes, failed, gamemode, last_gamemode, dead, value, send_count,
          rx_data, rx_report, announced, send_raised, last_zone,
          best_since_sel>>

oldVars == <<gamemode, last_gamemode, dead>>
switchVars == <<value, send_count>>
rxVars == <<rx_data, rx_report>>
zoneVars == <<last_zone, best_since_sel>>

----------------------------------------------------------------------------
(* Bounds of the model *)

MaxFrames == 3       \* frames the main loop reads in a run
MaxSelectFrames == 1 \* frames one call of select_targets reads
MaxMarkers == 2      \* markers detected in one frame
FrameWidth == 12     \* frame width of the camera in Spec and SpecOld
MaxWidth == 16       \* frame widths 1..MaxWidth in SpecBest
MaxSends == 6        \* loop iterations of the direction switch
WideWidth == 640     \* widest frame of SpecWide

(* Program constants *)

udp_port_deltax == 50002
udp_port_mode == 50001
min_send_interval == 0
DeadThreshold == 5
NoMarkerByte == 255
MaxDeltaByte == 254
KeyQuit == 99        \* ord('c')
KeySelectDone == 113 \* ord('q')
KeyNone == 255       \* waitKey(1) & 0xFF with no key pressed
KeyZero == 48        \* ord('0'): int(chr(key)) = key - 48 for a digit key

\* the marker ids in view of the camera
Ids == {1, 2}

\* mutant: keys 4 and 5 exchanged
mode_map_swapped == [k \in 1..5 |->
               CASE k = 1 -> "idle"
                 [] k = 2 -> "calibrate"
                 [] k = 3 -> "selection"
                 [] k = 4 -> "end"
                 [] k = 5 -> "attack"]

mode_map == [k \in 1..5 |->
               CASE k = 1 -> "idle"
                 [] k = 2 -> "calibrate"
                 [] k = 3 -> "selection"
                 [] k = 4 -> "attack"
                 [] k = 5 -> "end"]

Modes == {mode_map[k] : k \in 1..5}

Keys == {KeyZero + k : k \in 1..5} \cup {KeyQuit, KeySelectDone, KeyNone}

Abs(x) == IF x < 0 THEN -x ELSE x

----------------------------------------------------------------------------
(* What a frame can show: a sequence of <<marker id, centroid x>>. *)

SeqsUpTo(S, n) == UNION {[1..k -> S] : k \in 0..n}

\* Sample columns of the frame: on and inside the dead threshold left of the
\* centre, and inside it right of the centre.
Centroids(w) == {c \in {w \div 2 - DeadThreshold, w \div 2 - DeadThreshold + 1,
                        w \div 2 + DeadThreshold - 1} : c >= 0 /\ c <= w}

Detections(w) == SeqsUpTo(Ids \X Centroids(w), MaxMarkers)

AllDetections(w) == SeqsUpTo(Ids \X (0..w), MaxMarkers)

----------------------------------------------------------------------------
(* Pure helpers of the main loop *)

\* deltaX = cx - screen_center_x, doubled
TwiceDeltaX(cx, w) == 2 * cx - w

\* mutant: detection gated as in the older script (every mode but idle)
DetectsInNotIdle(mode) == mode # "idle"

\* detection runs only in selection or attack
DetectsIn(mode) == mode \in {"selection", "attack"}

\* the items loop: in attack only selected ids qualify
Qualifies(marker_id, mode, sel) ==
    IF mode = "attack" THEN marker_id \in sel ELSE TRUE

RECURSIVE Items(_, _, _, _)
Items(det, mode, sel, w) ==
    IF det = <<>> THEN <<>>
    ELSE LET m == Head(det)
             rest == Items(Tail(det), mode, sel, w)
         IN IF Qualifies(m[1], mode, sel)
            THEN <<(<<m[1], m[2], TwiceDeltaX(m[2], w)>>)>> \o rest
            ELSE rest

\* sort key of sorted(items, key=lambda x: abs(x[2]))
SortKey(item) == Abs(item[3])

\* mutant: an unstable sort that puts x before the elements of equal key
RECURSIVE InsertBeforeEqual(_, _)
InsertBeforeEqual(x, s) ==
    IF s = <<>> THEN <<x>>
    ELSE IF SortKey(Head(s)) < SortKey(x)
         THEN <<Head(s)>> \o InsertBeforeEqual(x, Tail(s))
         ELSE <<x>> \o s

\* stable insertion: x goes behind every element whose key is <= its own
RECURSIVE InsertByKey(_, _)
InsertByKey(x, s) ==
    IF s = <<>> THEN <<x>>
    ELSE IF SortKey(Head(s)) <= SortKey(x)
         THEN <<Head(s)>> \o InsertByKey(x, Tail(s))
         ELSE <<x>> \o s

RECURSIVE Sorted(_)
Sorted(s) ==
    IF s = <<>> THEN <<>>
    ELSE InsertByKey(s[Len(s)], Sorted(SubSeq(s, 1, Len(s) - 1)))

\* items_sorted[0]
BestOf(its) == IF its = <<>> THEN <<>> ELSE Head(Sorted(its))

\* Python round(n/d): to nearest, halves to the even neighbour (d > 0)
RoundHalfEven(n, d) ==
    LET q == n \div d
        r == n % d
    IN IF 2 * r < d THEN q
       ELSE IF 2 * r > d THEN q + 1
       ELSE IF q % 2 = 0 THEN q ELSE q + 1

\* mutant: clamps to the full byte range
ClampToByte(scaled) ==
    IF scaled < 0 THEN 0 ELSE IF scaled > 255 THEN 255 ELSE scaled

\* max(0, min(254, scaled))
Clamp(scaled) ==
    IF scaled < 0 THEN 0
    ELSE IF scaled > MaxDeltaByte THEN MaxDeltaByte ELSE scaled

\* int(round(deltaX / (w/2) * 127 + 128)), clamped; d2 is 2*deltaX
Uint8Of(d2, w) == Clamp(RoundHalfEven(127 * d2 + 128 * w, w))

\* min_send_interval == 0.0 or (now - last_send_time) >= min_send_interval
SendDue(now, last) ==
    min_send_interval = 0 \/ (now - last) >= min_send_interval

\* the payload of the frame's delta-port sendto, <<>> when none is made
DeltaPayload(det, its, b, mode, now, last, w) ==
    IF det # <<>>
    THEN IF its # <<>> /\ mode = "attack" /\ SendDue(now, last)
         THEN <<Uint8Of(b[3], w)>>
         ELSE <<>>
    ELSE IF mode = "attack" /\ SendDue(now, last)
         THEN <<NoMarkerByte>>
         ELSE <<>>

\* mutant: the dead threshold is inclusive
AfterRemovalInclusive(sel, b, mode) ==
    IF b # <<>> /\ mode = "attack" /\ sel # {} /\ b[1] \in sel
       /\ Abs(b[3]) <= 2 * DeadThreshold
    THEN sel \ {b[1]}
    ELSE sel

\* removal of a target within the dead threshold
AfterRemoval(sel, b, mode) ==
    IF b # <<>> /\ mode = "attack" /\ sel # {} /\ b[1] \in sel
       /\ Abs(b[3]) < 2 * DeadThreshold
    THEN sel \ {b[1]}
    ELSE sel

\* mutant: the index of the mode counted from zero
ModeNumFromZero(mode_name) ==
    (CHOOSE k \in DOMAIN mode_map : mode_map[k] = mode_name) - 1

\* the key of mode_map that names mode_name
ModeNum(mode_name) ==
    CHOOSE k \in DOMAIN mode_map :
        mode_map[k] = mode_name /\ \A j \in DOMAIN mode_map :
                                      mode_map[j] = mode_name => k <= j

Attempt(port, payload, ok, mode) ==
    [port |-> port, payload |-> payload, ok |-> ok, mode |-> mode]

\* send_mode_uint8: one sendto of struct.pack('!B', mode_num)
send_mode_uint8(w, mode_name, ok) ==
    Append(w, Attempt(udp_port_mode, <<ModeNum(mode_name)>>, ok, mode_name))

----------------------------------------------------------------------------
(* Aruco_DeltaX_Test_V2.py *)

Init ==
    /\ pc = "open"
    /\ width = FrameWidth
    /\ clock = 0
    /\ current_mode = "idle"
    /\ selected_ids = {}
    /\ log = <<>>
    /\ last_send_time = 0
    /\ items = <<>>
    /\ best = <<>>
    /\ pending = <<>>
    /\ detect_ran = FALSE
    /\ key = KeyNone
    /\ wire = <<>>
    /\ found_ids = {}
    /\ sel_reads = 0
    /\ csv_writes = 0
    /\ failed = "none"
    /\ gamemode = "idle"
    /\ last_gamemode = "None"
    /\ dead = [t \in {} |-> FALSE]
    /\ value = 1
    /\ send_count = 0
    /\ rx_data = <<>>
    /\ rx_report = [kind |-> "none"]
    /\ announced = 0
    /\ send_raised = FALSE
    /\ last_zone = [t \in Ids |-> "never"]
    /\ best_since_sel = {}

\* cap = cv2.VideoCapture(0); if not cap.isOpened(): return
OpenCamera ==
    /\ pc = "open"
    /\ \E ok \in BOOLEAN :
         /\ pc' = IF ok THEN "read" ELSE "done"
         /\ failed' = IF ok THEN failed ELSE "open"
    /\ UNCHANGED <<width, clock, current_mode, selected_ids, log,
                   last_send_time, items, best, pending, detect_ran, key,
                   wire, found_ids, sel_reads, csv_writes, oldVars,
                   switchVars, rxVars,
                   announced, send_raised, zoneVars>>

\* ret, frame = cap.read(); if not ret: break
ReadFails ==
    /\ pc = "read"
    /\ pc' = "exit"
    /\ failed' = "read"
    /\ UNCHANGED <<width, clock, current_mode, selected_ids, log,
                   last_send_time, items, best, pending, detect_ran, key,
                   wire, found_ids, sel_reads, csv_writes, oldVars,
                   switchVars, rxVars,
                   announced, send_raised, zoneVars>>

\* one iteration of the main loop from a successful read up to the
\* delta-port sendto, for a frame showing one of the detections in D
FrameOn(D) ==
    /\ pc = "read"
    /\ clock < MaxFrames
    /\ \E det \in (IF DetectsIn(current_mode) THEN D ELSE {<<>>}) :
         LET its == Items(det, current_mode, selected_ids, width)
             b == BestOf(its)
             now == clock + 1
             payload == DeltaPayload(det, its, b, current_mode, now,
                                     last_send_time, width)
         IN /\ clock' = now
            /\ detect_ran' = DetectsIn(current_mode)
            /\ items' = its
            /\ best' = b
            /\ log' = IF b # <<>> THEN Append(log, b) ELSE log
            /\ selected_ids' = AfterRemoval(selected_ids, b, current_mode)
            /\ pending' = payload
            /\ wire' = <<>>
            /\ pc' = IF payload # <<>> THEN "send" ELSE "key"
    /\ UNCHANGED <<width, current_mode, last_send_time, key, found_ids,
                   sel_reads, csv_writes, failed, oldVars, switchVars, rxVars,
                   announced, send_raised, zoneVars>>

Frame == FrameOn(Detections(width))

\* sock.sendto(payload, (udp_ip, udp_port_deltax)); last_send_time = now
\* or: except Exception: print(...)
SendDelta ==
    /\ pc = "send"
    /\ \E ok \in BOOLEAN :
         /\ wire' = Append(wire, Attempt(udp_port_deltax, pending, ok,
                                         current_mode))
         /\ last_send_time' = IF ok THEN clock ELSE last_send_time
         /\ send_raised' = ~ok
    /\ pending' = <<>>
    /\ pc' = "key"
    /\ UNCHANGED <<width, clock, current_mode, selected_ids, log, items,
                   best, detect_ran, key, found_ids, sel_reads, csv_writes,
                   failed, oldVars, switchVars, rxVars,
                   announced, zoneVars>>

\* key = cv2.waitKey(1) & 0xFF and the dispatch on it up to the call of
\* send_mode_uint8.  The dispatch ends the iteration: its locals (items,
\* best_*) are dead from here on, the next iteration rebinds them before
\* any use.
KeyPress ==
    /\ pc = "key"
    /\ \E k \in Keys :
         /\ key' = k
         /\ IF k = KeyQuit
            THEN pc' = "exit" /\ UNCHANGED current_mode
            ELSE IF k - KeyZero \in DOMAIN mode_map
            THEN pc' = "mode_send" /\ current_mode' = mode_map[k - KeyZero]
            ELSE pc' = "read" /\ UNCHANGED current_mode
    /\ wire' = <<>>
    /\ items' = <<>>
    /\ best' = <<>>
    /\ detect_ran' = FALSE
    /\ UNCHANGED <<width, clock, selected_ids, log, last_send_time, pending,
                   found_ids, sel_reads, csv_writes, failed, oldVars,
                   switchVars, rxVars,
                   announced, send_raised, zoneVars>>

\* send_mode_uint8(current_mode): sock.sendto returns or raises; called by
\* the key dispatch (then selection enters select_targets) and after the
\* selection
SendMode ==
    /\ pc \in {"mode_send", "attack_send"}
    /\ \E ok \in BOOLEAN : wire' = send_mode_uint8(wire, current_mode, ok)
    /\ announced' = wire'[Len(wire')].payload[1]
    /\ send_raised' = ~wire'[Len(wire')].ok
    /\ IF pc = "mode_send" /\ current_mode = "selection"
       THEN pc' = "sel_read" /\ found_ids' = {} /\ sel_reads' = 0
       ELSE pc' = "read" /\ UNCHANGED <<found_ids, sel_reads>>
    /\ UNCHANGED <<width, clock, current_mode, selected_ids, log,
                   last_send_time, items, best, pending, detect_ran, key,
                   csv_writes, failed, oldVars, switchVars, rxVars, zoneVars>>

\* select_targets: ret, frame = cap.read(); if not ret: break
SelectReadFails ==
    /\ pc = "sel_read"
    /\ pc' = "sel_input"
    /\ failed' = "sel_read"
    /\ UNCHANGED <<width, clock, current_mode, selected_ids, log,
                   last_send_time, items, best, pending, detect_ran, key,
                   wire, found_ids, sel_reads, csv_writes, oldVars,
                   switchVars, rxVars,
                   announced, send_raised, zoneVars>>

\* select_targets: one iteration with a successful read
SelectFrame ==
    /\ pc = "sel_read"
    /\ sel_reads < MaxSelectFrames
    /\ \E seen \in SUBSET Ids, k \in Keys :
         /\ found_ids' = found_ids \cup seen
         /\ pc' = IF k = KeySelectDone THEN "sel_input" ELSE "sel_read"
    /\ sel_reads' = sel_reads + 1
    /\ UNCHANGED <<width, clock, current_mode, selected_ids, log, last_send_time,
                   items, best, pending, detect_ran, key, wire, csv_writes,
                   failed, oldVars, switchVars, rxVars,
                   announced, send_raised, zoneVars>>

\* select_targets returns (its locals are dropped); input(...) raises
\* (EOFError), or a typed field passes str.isdigit() and int() rejects it
\* (ValueError, e.g. a superscript digit): nothing catches the exception,
\* it leaves main() before selected_ids or current_mode is assigned; no
\* release, no close, no CSV
SelectInputRaises ==
    /\ pc = "sel_input"
    /\ pc' = "raised"
    /\ found_ids' = {}
    /\ sel_reads' = 0
    /\ UNCHANGED <<width, clock, current_mode, selected_ids, log,
                   last_send_time, items, best, pending, detect_ran, key,
                   wire, csv_writes, failed, oldVars, switchVars, rxVars,
                   announced, send_raised, zoneVars>>

\* select_targets returns (its locals are dropped);
\* user_input = input(...); selected_ids = [...]; current_mode = 'attack'
SelectInput ==
    /\ pc = "sel_input"
    /\ \E typed \in SUBSET Ids : selected_ids' = typed
    /\ current_mode' = "attack"
    /\ pc' = "attack_send"
    /\ found_ids' = {}
    /\ sel_reads' = 0
    /\ UNCHANGED <<width, clock, log, last_send_time, items, best, pending,
                   detect_ran, key, wire, csv_writes, failed, oldVars,
                   switchVars, rxVars,
                   announced, send_raised, zoneVars>>

\* mutant: the log is written whether or not it is empty
ExitAlwaysWrites ==
    /\ pc = "exit"
    /\ csv_writes' = csv_writes + 1
    /\ pc' = "done"
    /\ UNCHANGED <<width, clock, current_mode, selected_ids, log,
                   last_send_time, items, best, pending, detect_ran, key,
                   wire, found_ids, sel_reads, failed, oldVars, switchVars, rxVars,
                   announced, send_raised, zoneVars>>

\* after the loop: release, close, and write the log if it is not empty
Exit ==
    /\ pc = "exit"
    /\ csv_writes' = IF log # <<>> THEN csv_writes + 1 ELSE csv_writes
    /\ pc' = "done"
    /\ UNCHANGED <<width, clock, current_mode, selected_ids, log,
                   last_send_time, items, best, pending, detect_ran, key,
                   wire, found_ids, sel_reads, failed, oldVars, switchVars, rxVars,
                   announced, send_raised, zoneVars>>

Next ==
    \/ OpenCamera
    \/ ReadFails
    \/ Frame
    \/ SendDelta
    \/ KeyPress
    \/ SendMode
    \/ SelectReadFails
    \/ SelectFrame
    \/ SelectInput
    \/ SelectInputRaises
    \/ Exit

Spec == Init /\ [][Next]_vars

----------------------------------------------------------------------------
(* One attack frame of Aruco_DeltaX_Test_V2.py over every frame width up   *)
(* to MaxWidth, every centroid column and every selection: the best-marker *)
(* choice and the uint8 encoding as pure functions of the frame.           *)

InitBest ==
    /\ pc = "read"
    /\ width \in 1..MaxWidth
    /\ clock = 0
    /\ current_mode = "attack"
    /\ selected_ids \in SUBSET Ids
    /\ log = <<>>
    /\ last_send_time = 0
    /\ items = <<>>
    /\ best = <<>>
    /\ pending = <<>>
    /\ detect_ran = FALSE
    /\ key = KeyZero + 4
    /\ wire = <<>>
    /\ found_ids = {}
    /\ sel_reads = 0
    /\ csv_writes = 0
    /\ failed = "none"
    /\ gamemode = "idle"
    /\ last_gamemode = "None"
    /\ dead = [t \in {} |-> FALSE]
    /\ value = 1
    /\ send_count = 0
    /\ rx_data = <<>>
    /\ rx_report = [kind |-> "none"]
    /\ announced = 0
    /\ send_raised = FALSE
    /\ last_zone = [t \in Ids |-> "never"]
    /\ best_since_sel = {}

FrameBest == clock = 0 /\ FrameOn(AllDetections(width))

NextBest ==
    \/ FrameBest
    \/ SendDelta

SpecBest == InitBest /\ [][NextBest]_vars

----------------------------------------------------------------------------
(* One attack frame of Aruco_DeltaX_Test_V2.py on a camera-sized frame:    *)
(* widths WideWidth - 2 .. WideWidth, markers within NearCentre columns of *)
(* the centre column.                                                      *)

NearCentre == 2      \* columns either side of w \div 2 a marker can be in

WideCentroids(w) == {c \in (w \div 2 - NearCentre)..(w \div 2 + NearCentre) :
                       c >= 0 /\ c <= w}

WideDetections(w) == SeqsUpTo(Ids \X WideCentroids(w), MaxMarkers)

InitWide ==
    /\ pc = "read"
    /\ width \in (WideWidth - 2)..WideWidth
    /\ clock = 0
    /\ current_mode = "attack"
    /\ selected_ids \in SUBSET Ids
    /\ log = <<>>
    /\ last_send_time = 0
    /\ items = <<>>
    /\ best = <<>>
    /\ pending = <<>>
    /\ detect_ran = FALSE
    /\ key = KeyZero + 4
    /\ wire = <<>>
    /\ found_ids = {}
    /\ sel_reads = 0
    /\ csv_writes = 0
    /\ failed = "none"
    /\ gamemode = "idle"
    /\ last_gamemode = "None"
    /\ dead = [t \in {} |-> FALSE]
    /\ value = 1
    /\ send_count = 0
    /\ rx_data = <<>>
    /\ rx_report = [kind |-> "none"]
    /\ announced = 0
    /\ send_raised = FALSE
    /\ last_zone = [t \in Ids |-> "never"]
    /\ best_since_sel = {}

FrameWide == clock = 0 /\ FrameOn(WideDetections(width))

NextWide ==
    \/ FrameWide
    \/ SendDelta

SpecWide == InitWide /\ [][NextWide]_vars

----------------------------------------------------------------------------
(* old/Aruco_DeltaX_Test.py.  It shares select_targets, the frame read, the *)
(* best-marker choice, the uint8 encoding and the exit with the script      *)
(* above; mode messages and deltas go to one port.                          *)

udp_port == 50002
DeadZone == 1        \* -1.0 <= best_deltaX <= 1.0

\* Sample columns of the frame: on the edge of the dead zone and outside.
CentroidsOld(w) == {c \in {w \div 2 + DeadZone, w \div 2 + DeadZone + 1} :
                        c >= 0 /\ c <= w}

DetectionsOld(w) == SeqsUpTo(Ids \X CentroidsOld(w), MaxMarkers)

\* the ASCII bytes of a mode name
NameBytes(mode) ==
    CASE mode = "idle" -> <<105, 100, 108, 101>>
      [] mode = "calibrate" -> <<99, 97, 108, 105, 98, 114, 97, 116, 101>>
      [] mode = "finding" -> <<102, 105, 110, 100, 105, 110, 103>>
      [] mode = "attack" -> <<97, 116, 116, 97, 99, 107>>
      [] mode = "end" -> <<101, 110, 100>>

\* f"MODE:{mode}".encode('utf-8')
ModeMsg(mode) == <<77, 79, 68, 69, 58>> \o NameBytes(mode)

\* send_mode: nothing when mode == last_gamemode, else one sendto
send_mode(w, mode, ok, last) ==
    IF mode = last THEN w
    ELSE Append(w, Attempt(udp_port, ModeMsg(mode), ok, mode))

\* detection runs when gamemode != 'idle'
DetectsInOld(mode) == mode # "idle"

\* the items loop: only selected ids qualify, in every mode
RECURSIVE ItemsOld(_, _, _)
ItemsOld(det, sel, w) ==
    IF det = <<>> THEN <<>>
    ELSE LET m == Head(det)
             rest == ItemsOld(Tail(det), sel, w)
         IN IF m[1] \in sel
            THEN <<(<<m[1], m[2], TwiceDeltaX(m[2], w)>>)>> \o rest
            ELSE rest

\* update of dead[best_id]
DeadAfterStrict(d, b) ==
    IF b # <<>> /\ b[1] \in DOMAIN d
    THEN [d EXCEPT ![b[1]] = (Abs(b[3]) < 2 * DeadZone)]
    ELSE d

DeadAfter(d, b) ==
    IF b # <<>> /\ b[1] \in DOMAIN d
    THEN [d EXCEPT ![b[1]] = (Abs(b[3]) <= 2 * DeadZone)]
    ELSE d

\* dead.get(t, False)
DeadGet(d, t) == IF t \in DOMAIN d THEN d[t] ELSE FALSE

\* selected_ids and all(dead.get(t, False) for t in selected_ids)
AllDead(sel, d) == sel # {} /\ \A t \in sel : DeadGet(d, t)

\* the payload of the frame's delta sendto: no mode condition
DeltaPayloadOld(det, its, b, now, last, w) ==
    IF det # <<>>
    THEN IF its # <<>> /\ SendDue(now, last)
         THEN <<Uint8Of(b[3], w)>>
         ELSE <<>>
    ELSE IF SendDue(now, last) THEN <<NoMarkerByte>> ELSE <<>>

InitOld ==
    /\ pc = "open"
    /\ width = FrameWidth
    /\ clock = 0
    /\ current_mode = "idle"
    /\ selected_ids = {}
    /\ log = <<>>
    /\ last_send_time = 0
    /\ items = <<>>
    /\ best = <<>>
    /\ pending = <<>>
    /\ detect_ran = FALSE
    /\ key = KeyNone
    /\ wire = <<>>
    /\ found_ids = {}
    /\ sel_reads = 0
    /\ csv_writes = 0
    /\ failed = "none"
    /\ gamemode = "idle"
    /\ last_gamemode = "None"
    /\ dead = [t \in {} |-> FALSE]
    /\ value = 1
    /\ send_count = 0
    /\ rx_data = <<>>
    /\ rx_report = [kind |-> "none"]
    /\ announced = 0
    /\ send_raised = FALSE
    /\ last_zone = [t \in Ids |-> "never"]
    /\ best_since_sel = {}

\* the camera is opened (or main returns); the socket is made and the
\* initial mode is announced: send_mode(gamemode)
OpenCameraOld ==
    /\ pc = "open"
    /\ \E opened \in BOOLEAN, ok \in BOOLEAN :
         IF opened
         THEN /\ pc' = "read"
              /\ wire' = send_mode(wire, gamemode, ok, last_gamemode)
              /\ last_gamemode' = gamemode
              /\ UNCHANGED failed
         ELSE /\ pc' = "done"
              /\ failed' = "open"
              /\ UNCHANGED <<wire, last_gamemode>>
    /\ UNCHANGED <<width, clock, current_mode, selected_ids, log,
                   last_send_time, items, best, pending, detect_ran, key,
                   found_ids, sel_reads, csv_writes, gamemode, dead,
                   switchVars, rxVars,
                   announced, send_raised, zoneVars>>

\* one iteration of the main loop from a successful read up to the
\* delta sendto: detection, best marker, log row, dead flag, end condition
FrameOld ==
    /\ pc = "read"
    /\ clock < MaxFrames
    /\ \E det \in (IF DetectsInOld(gamemode) THEN DetectionsOld(width)
                    ELSE {<<>>}),
          ok \in BOOLEAN :
         LET its == ItemsOld(det, selected_ids, width)
             b == BestOf(its)
             now == clock + 1
             d == DeadAfter(dead, b)
             ends == b # <<>> /\ AllDead(selected_ids, d)
             payload == DeltaPayloadOld(det, its, b, now, last_send_time,
                                        width)
         IN /\ clock' = now
            /\ detect_ran' = DetectsInOld(gamemode)
            /\ items' = its
            /\ best' = b
            /\ log' = IF b # <<>> THEN Append(log, b) ELSE log
            /\ dead' = d
            /\ last_zone' = IF b # <<>>
                            THEN [last_zone EXCEPT ![b[1]] =
                                    IF b[3] >= -2 /\ b[3] <= 2 THEN "in"
                                    ELSE "out"]
                            ELSE last_zone
            /\ best_since_sel' = IF b # <<>> THEN best_since_sel \cup {b[1]}
                                 ELSE best_since_sel
            /\ gamemode' = IF ends THEN "end" ELSE gamemode
            /\ wire' = IF ends THEN send_mode(<<>>, "end", ok, last_gamemode)
                       ELSE <<>>
            /\ last_gamemode' = IF ends THEN "end" ELSE last_gamemode
            /\ pending' = payload
            /\ pc' = IF payload # <<>> THEN "send" ELSE "key"
    /\ UNCHANGED <<width, current_mode, selected_ids, last_send_time, key,
                   found_ids, sel_reads, csv_writes, failed, switchVars,
                   rxVars, announced, send_raised>>

\* sock.sendto(payload, (udp_ip, udp_port)); last_send_time = now
\* or: except Exception: print(...)
SendDeltaOld ==
    /\ pc = "send"
    /\ \E ok \in BOOLEAN :
         /\ wire' = Append(wire, Attempt(udp_port, pending, ok, gamemode))
         /\ last_send_time' = IF ok THEN clock ELSE last_send_time
    /\ pending' = <<>>
    /\ pc' = "key"
    /\ UNCHANGED <<width, clock, current_mode, selected_ids, log, items,
                   best, detect_ran, key, found_ids, sel_reads, csv_writes,
                   failed, oldVars, switchVars, rxVars,
                   announced, send_raised, zoneVars>>

\* the mode a digit key asks for
KeyModeOld(k) ==
    CASE k = KeyZero + 1 -> "idle"
      [] k = KeyZero + 2 -> "calibrate"
      [] k = KeyZero + 3 -> "finding"
      [] k = KeyZero + 4 -> "attack"
      [] k = KeyZero + 5 -> "end"

\* key = cv2.waitKey(1) & 0xFF and the if/elif chain on it; key 3 goes on
\* into select_targets
KeyPressOld ==
    /\ pc = "key"
    /\ \E k \in Keys, ok \in BOOLEAN :
         /\ key' = k
         /\ IF k - KeyZero \in 1..5
            THEN /\ gamemode' = KeyModeOld(k)
                 /\ wire' = send_mode(<<>>, KeyModeOld(k), ok, last_gamemode)
                 /\ last_gamemode' = KeyModeOld(k)
                 /\ pc' = IF k = KeyZero + 3 THEN "sel_read" ELSE "read"
            ELSE /\ pc' = IF k = KeyQuit THEN "exit" ELSE "read"
                 /\ wire' = <<>>
                 /\ UNCHANGED <<gamemode, last_gamemode>>
    /\ found_ids' = {}
    /\ sel_reads' = 0
    /\ items' = <<>>
    /\ best' = <<>>
    /\ detect_ran' = FALSE
    /\ UNCHANGED <<width, clock, current_mode, selected_ids, log,
                   last_send_time, pending, csv_writes, failed, dead,
                   switchVars, rxVars,
                   announced, send_raised, zoneVars>>

\* select_targets returns; if found: selected_ids = set(found) and the dead
\* flags are reset
SelectDoneOld ==
    /\ pc = "sel_input"
    /\ IF found_ids # {}
       THEN /\ selected_ids' = found_ids
            /\ dead' = [t \in found_ids |-> FALSE]
            /\ best_since_sel' = {}
       ELSE UNCHANGED <<selected_ids, dead, best_since_sel>>
    /\ pc' = "read"
    /\ found_ids' = {}
    /\ sel_reads' = 0
    /\ UNCHANGED <<width, clock, current_mode, log, last_send_time, items,
                   best, pending, detect_ran, key, wire, csv_writes, failed,
                   gamemode, last_gamemode, switchVars, rxVars,
                   announced, send_raised, last_zone>>

NextOld ==
    \/ OpenCameraOld
    \/ ReadFails
    \/ FrameOld
    \/ SendDeltaOld
    \/ KeyPressOld
    \/ SelectReadFails
    \/ SelectFrame
    \/ SelectDoneOld
    \/ Exit

SpecOld == InitOld /\ [][NextOld]_vars

----------------------------------------------------------------------------
(* UDP_Send_DirectionSwitch.py *)

UDP_PORT == 50002

InitSwitch ==
    /\ pc = "sw_send"
    /\ value = 1
    /\ send_count = 0
    /\ rx_data = <<>>
    /\ rx_report = [kind |-> "none"]
    /\ announced = 0
    /\ send_raised = FALSE
    /\ last_zone = [t \in Ids |-> "never"]
    /\ best_since_sel = {}
    /\ wire = <<>>
    /\ width = FrameWidth
    /\ clock = 0
    /\ current_mode = "idle"
    /\ selected_ids = {}
    /\ log = <<>>
    /\ last_send_time = 0
    /\ items = <<>>
    /\ best = <<>>
    /\ pending = <<>>
    /\ detect_ran = FALSE
    /\ key = KeyNone
    /\ found_ids = {}
    /\ sel_reads = 0
    /\ csv_writes = 0
    /\ failed = "none"
    /\ gamemode = "idle"
    /\ last_gamemode = "None"
    /\ dead = [t \in {} |-> FALSE]

mainVars == <<width, clock, current_mode, selected_ids, log, last_send_time,
              items, best, pending, detect_ran, key, found_ids, sel_reads,
              csv_writes, failed, oldVars, rxVars, announced, send_raised,
              zoneVars>>

\* payload = bytes([value]); sock.sendto(...) returns (send_count += 1) or
\* raises socket.error; then value is flipped for the next send
SwitchSend ==
    /\ pc = "sw_send"
    /\ Len(wire) < MaxSends
    /\ \E ok \in BOOLEAN :
         /\ wire' = Append(wire, Attempt(UDP_PORT, <<value>>, ok, "switch"))
         /\ send_count' = IF ok THEN send_count + 1 ELSE send_count
    /\ value' = IF value = 1 THEN 0 ELSE 1
    /\ pc' = "sw_sleep"
    /\ UNCHANGED mainVars

\* time.sleep(INTERVAL) returns
SwitchSleep ==
    /\ pc = "sw_sleep"
    /\ pc' = "sw_send"
    /\ UNCHANGED <<wire, value, send_count, mainVars>>

\* Ctrl-C: caught around the sleep (break), uncaught elsewhere; both end
\* the sender through the finally clause.  In the send part of an
\* iteration it arrives before sendto, after sendto returned or raised and
\* before the count, or after the count and before the flip; after the
\* flip the sender is at its sleep.
SwitchInterrupt ==
    /\ pc \in {"sw_send", "sw_sleep"}
    /\ pc' = "sw_stopped"
    /\ \/ UNCHANGED <<wire, send_count>>
       \/ /\ pc = "sw_send"
          /\ Len(wire) < MaxSends
          /\ \E ok \in BOOLEAN, counted \in BOOLEAN :
               /\ wire' = Append(wire, Attempt(UDP_PORT, <<value>>, ok,
                                               "switch"))
               /\ send_count' = IF ok /\ counted THEN send_count + 1
                                 ELSE send_count
    /\ UNCHANGED <<value, mainVars>>

NextSwitch ==
    \/ SwitchSend
    \/ SwitchSleep
    \/ SwitchInterrupt

SpecSwitch == InitSwitch /\ [][NextSwitch]_vars

----------------------------------------------------------------------------
(* old/UDP_Receive.py.  A datagram is the sequence of its bytes; the report *)
(* is what the loop body prints for it, less the sender's address.          *)

IsCont(b) == b >= 128 /\ b <= 191

\* One character of bytes.decode('utf-8') (strict): <<code point, bytes
\* consumed>>, or <<-1, 0>> where the decoder raises UnicodeDecodeError.
Utf8Char(d) ==
    LET n == Len(d)
        b1 == d[1]
        lo2 == IF b1 = 224 THEN 160 ELSE IF b1 = 240 THEN 144 ELSE 128
        hi2 == IF b1 = 237 THEN 159 ELSE IF b1 = 244 THEN 143 ELSE 191
    IN IF b1 < 128 THEN <<b1, 1>>
       ELSE IF b1 >= 194 /\ b1 <= 223
       THEN IF n >= 2 /\ IsCont(d[2])
            THEN <<(b1 - 192) * 64 + (d[2] - 128), 2>>
            ELSE <<-1, 0>>
       ELSE IF b1 >= 224 /\ b1 <= 239
       THEN IF n >= 3 /\ d[2] >= lo2 /\ d[2] <= hi2 /\ IsCont(d[3])
            THEN <<(b1 - 224) * 4096 + (d[2] - 128) * 64 + (d[3] - 128), 3>>
            ELSE <<-1, 0>>
       ELSE IF b1 >= 240 /\ b1 <= 244
       THEN IF n >= 4 /\ d[2] >= lo2 /\ d[2] <= hi2 /\ IsCont(d[3])
               /\ IsCont(d[4])
            THEN <<(b1 - 240) * 262144 + (d[2] - 128) * 4096
                     + (d[3] - 128) * 64 + (d[4] - 128), 4>>
            ELSE <<-1, 0>>
       ELSE <<-1, 0>>

\* data.decode('utf-8'): [ok |-> TRUE, text |-> code points], or
\* [ok |-> FALSE, text |-> <<>>] for UnicodeDecodeError
RECURSIVE Utf8Decode(_)
Utf8Decode(d) ==
    IF d = <<>> THEN [ok |-> TRUE, text |-> <<>>]
    ELSE LET c == Utf8Char(d)
         IN IF c[1] < 0 THEN [ok |-> FALSE, text |-> <<>>]
            ELSE LET rest == Utf8Decode(SubSeq(d, c[2] + 1, Len(d)))
                 IN IF rest.ok
                    THEN [ok |-> TRUE, text |-> <<c[1]>> \o rest.text]
                    ELSE rest

\* The body of the receive loop: the text if the datagram decodes as UTF-8;
\* otherwise the byte list and, by length, the uint8 value, the float32
\* carried by the four bytes, or the length of a raw payload.
ReportOld(data) ==
    IF Utf8Decode(data).ok
    THEN [kind |-> "utf8", text |-> Utf8Decode(data).text]
    ELSE IF Len(data) = 1
    THEN [kind |-> "uint8", bytes |-> data, val |-> data[1]]
    ELSE IF Len(data) = 4 THEN [kind |-> "float32", bytes |-> data]
    ELSE [kind |-> "raw", bytes |-> data, len |-> Len(data)]

\* Datagrams arriving on the port: every single byte, the mode messages of
\* old/Aruco_DeltaX_Test.py, and binary and text payloads of other lengths.
DatagramsOld ==
    {<<b>> : b \in 0..255}
    \cup {ModeMsg(KeyModeOld(KeyZero + k)) : k \in 1..5}
    \cup {<<>>, <<195, 169>>, <<195, 40>>, <<255, 255>>, <<226, 130, 172>>,
          <<0, 0, 0, 0>>, <<63, 128, 0, 0>>, <<127, 255, 255, 255>>,
          <<192, 0, 0, 0>>, <<240, 159, 152, 128>>, <<255, 1, 2, 3, 4>>}

InitRecvOld ==
    /\ pc = "recv"
    /\ width = 0
    /\ clock = 0
    /\ current_mode = "idle"
    /\ selected_ids = {}
    /\ log = <<>>
    /\ last_send_time = 0
    /\ items = <<>>
    /\ best = <<>>
    /\ pending = <<>>
    /\ detect_ran = FALSE
    /\ key = KeyNone
    /\ wire = <<>>
    /\ found_ids = {}
    /\ sel_reads = 0
    /\ csv_writes = 0
    /\ failed = "none"
    /\ gamemode = "idle"
    /\ last_gamemode = "None"
    /\ dead = [t \in {} |-> FALSE]
    /\ value = 1
    /\ send_count = 0
    /\ rx_data = <<>>
    /\ rx_report = [kind |-> "none"]
    /\ announced = 0
    /\ send_raised = FALSE
    /\ last_zone = [t \in Ids |-> "never"]
    /\ best_since_sel = {}

senderVars == <<width, clock, current_mode, selected_ids, log, last_send_time,
                items, best, pending, detect_ran, key, wire, found_ids,
                sel_reads, csv_writes, failed, oldVars, switchVars,
                announced, send_raised, zoneVars>>

\* data, addr = sock.recvfrom(1024) and the prints that follow
ReceiveOld ==
    /\ pc = "recv"
    /\ \E data \in DatagramsOld :
         /\ rx_data' = data
         /\ rx_report' = ReportOld(data)
    /\ UNCHANGED <<pc, senderVars>>

NextRecvOld == ReceiveOld

SpecRecvOld == InitRecvOld /\ [][NextRecvOld]_vars

----------------------------------------------------------------------------
(* UDP_Receive_int32.py, listening on the delta port of one attack frame of *)
(* Aruco_DeltaX_Test_V2.py and of senders of longer datagrams.              *)

UDP_PORT_int32 == 50002
SENTINEL == 2147483647   \* 0x7FFFFFFF

\* struct.unpack('!i', four)[0]: big-endian two's complement
Int32Of(four) ==
    (IF four[1] >= 128 THEN four[1] - 256 ELSE four[1]) * 16777216
        + four[2] * 65536 + four[3] * 256 + four[4]

\* mutant: any non-empty datagram is decoded, its first byte as the value
Int32ReportAnyLength(data) ==
    IF Len(data) >= 4
    THEN IF Int32Of(SubSeq(data, 1, 4)) = SENTINEL THEN [kind |-> "nomarker"]
         ELSE [kind |-> "deltaX", val |-> Int32Of(SubSeq(data, 1, 4))]
    ELSE IF Len(data) >= 1 THEN [kind |-> "deltaX", val |-> data[1]]
    ELSE [kind |-> "short", len |-> Len(data), bytes |-> data]

\* the body of the receive loop: what is printed for one datagram
Int32Report(data) ==
    IF Len(data) >= 4
    THEN IF Int32Of(SubSeq(data, 1, 4)) = SENTINEL THEN [kind |-> "nomarker"]
         ELSE [kind |-> "deltaX", val |-> Int32Of(SubSeq(data, 1, 4))]
    ELSE [kind |-> "short", len |-> Len(data), bytes |-> data]

\* datagrams of other senders: int32 values, the sentinel, longer and
\* shorter payloads
DatagramsInt32 ==
    {<<>>, <<1, 2>>, <<127, 255, 255>>, <<0, 0, 0, 0>>, <<0, 0, 1, 44>>,
     <<255, 255, 255, 255>>, <<255, 255, 254, 212>>, <<128, 0, 0, 0>>,
     <<127, 255, 255, 255>>, <<127, 255, 255, 254>>,
     <<127, 255, 255, 255, 9>>, <<0, 0, 0, 7, 1, 2, 3, 4>>}

InitInt32 ==
    /\ pc = "read"
    /\ width = FrameWidth
    /\ clock = 0
    /\ current_mode = "attack"
    /\ selected_ids \in SUBSET Ids
    /\ log = <<>>
    /\ last_send_time = 0
    /\ items = <<>>
    /\ best = <<>>
    /\ pending = <<>>
    /\ detect_ran = FALSE
    /\ key = KeyZero + 4
    /\ wire = <<>>
    /\ found_ids = {}
    /\ sel_reads = 0
    /\ csv_writes = 0
    /\ failed = "none"
    /\ gamemode = "idle"
    /\ last_gamemode = "None"
    /\ dead = [t \in {} |-> FALSE]
    /\ value = 1
    /\ send_count = 0
    /\ rx_data = <<>>
    /\ rx_report = [kind |-> "none"]
    /\ announced = 0
    /\ send_raised = FALSE
    /\ last_zone = [t \in Ids |-> "never"]
    /\ best_since_sel = {}

FrameInt32 == clock = 0 /\ Frame

\* data, addr = sock.recvfrom(4096) returns a datagram that the script
\* above sent to this port, and the print that follows
DeliverInt32 ==
    /\ \E i \in DOMAIN wire :
         /\ wire[i].ok
         /\ wire[i].port = UDP_PORT_int32
         /\ rx_data' = wire[i].payload
         /\ rx_report' = Int32Report(wire[i].payload)
    /\ UNCHANGED <<pc, senderVars>>

\* data, addr = sock.recvfrom(4096) returns a datagram of another sender
ReceiveInt32 ==
    /\ \E data \in DatagramsInt32 :
         /\ rx_data' = data
         /\ rx_report' = Int32Report(data)
    /\ UNCHANGED <<pc, senderVars>>

NextInt32 ==
    \/ FrameInt32
    \/ SendDelta
    \/ DeliverInt32
    \/ ReceiveInt32

SpecInt32 == InitInt32 /\ [][NextInt32]_vars

----------------------------------------------------------------------------
(* Claims about Aruco_DeltaX_Test_V2.py *)

DeltaAttempts == {i \in DOMAIN wire : wire[i].port = udp_port_deltax}
ModeAttempts == {i \in DOMAIN wire : wire[i].port = udp_port_mode}
InFrame == pc \in {"send", "key"}

\* |centroid - width/2|, doubled, of an item
Offset(item) == Abs(2 * item[2] - width)

\* C1: whenever a frame has a non-empty list of qualifying items, the best
\* marker is an item of minimal |centroid - width/2|, and it is the first
\* item in detection order that has that minimal offset.
C1_BestIsFirstMinimal ==
    (InFrame /\ items # <<>>) =>
        \E i \in DOMAIN items :
            /\ best = items[i]
            /\ \A j \in DOMAIN items :
                   /\ Offset(items[j]) >= Offset(items[i])
                   /\ j < i => Offset(items[j]) > Offset(items[i])

\* C1 witness: two different items tie for the minimal offset and the one
\* detected first was chosen.
C1_Witness ==
    /\ pc = "key"
    /\ Len(items) >= 2
    /\ \E i, j \in DOMAIN items :
          /\ i < j
          /\ items[i] # items[j]
          /\ Offset(items[i]) = Offset(items[j])
          /\ best = items[i]
          /\ \A n \in DOMAIN items : Offset(items[n]) >= Offset(items[i])

\* the integers nearest to (2*cx - w)/w * 127 + 128, for the best marker
NearestScaled ==
    {r \in 0..256 :
        2 * Abs(127 * (2 * best[2] - width) + 128 * width - r * width)
            <= width}

\* C2: the byte of a found marker's datagram is the rounded value
\* delta/(w/2)*127+128 clamped into 0..254, hence never 255, and 255 is
\* carried only by the datagram of a frame without marker.
C2_Uint8Encoding ==
    /\ pc = "send" => Len(pending) = 1
    /\ InFrame => \A i \in DeltaAttempts \cup (IF pc = "send" THEN {0} ELSE {}) :
          LET payload == IF i = 0 THEN pending ELSE wire[i].payload
          IN /\ Len(payload) = 1
             /\ best # <<>> =>
                   /\ payload[1] \in 0..MaxDeltaByte
                   /\ \E r \in NearestScaled :
                         payload[1] = IF r > MaxDeltaByte THEN MaxDeltaByte ELSE r
             /\ payload[1] = NoMarkerByte <=> best = <<>>

\* C2 witness: a marker on the right edge, whose value 255 was clamped to
\* 254 and sent.
C2_Witness ==
    /\ pc = "key"
    /\ best # <<>>
    /\ best[2] = width
    /\ DeltaAttempts # {}
    /\ \A i \in DeltaAttempts : wire[i].payload = <<MaxDeltaByte>>

GatedModes == {"idle", "calibrate", "end"}

\* C3: a frame processed in idle, calibrate or end runs no detection,
\* appends no log row and makes no delta-port send; every delta-port
\* datagram is sent in attack mode.
C3_ModeGating ==
    /\ [](\A i \in DeltaAttempts : wire[i].mode = "attack")
    /\ []((pc = "send" \/ pending # <<>>) => current_mode = "attack")
    /\ []((InFrame /\ current_mode \in GatedModes) =>
              ~detect_ran /\ best = <<>> /\ DeltaAttempts = {})
    /\ [][(pc = "read" /\ pc' \in {"send", "key"}
             /\ current_mode \in GatedModes)
            => (log' = log /\ ~detect_ran' /\ pc' = "key" /\ wire' = <<>>)]_vars

\* C3 witness: a frame has been processed in end mode after rows were
\* logged in attack mode, and nothing was sent.
C3_Witness ==
    /\ pc = "key"
    /\ current_mode = "end"
    /\ log # <<>>
    /\ ~detect_ran
    /\ wire = <<>>

\* C4 (as claimed): every frame processed in attack mode attempts exactly
\* one delta-port datagram, the encoded delta when a selected marker was
\* found and the sentinel 255 otherwise.
C4_AttackFrameSendsOne ==
    (pc = "key" /\ current_mode = "attack") =>
        /\ Len(wire) = 1
        /\ wire[1].port = udp_port_deltax
        /\ wire[1].payload = IF best # <<>>
                              THEN <<Uint8Of(best[3], width)>>
                              ELSE <<NoMarkerByte>>

\* C5 (as claimed): at the start of the frame after digit key k was
\* pressed the current mode is the k-th mode.
C5_KeySetsMode ==
    (pc = "read" /\ key - KeyZero \in 1..5) =>
        current_mode = CASE key - KeyZero = 1 -> "idle"
                         [] key - KeyZero = 2 -> "calibrate"
                         [] key - KeyZero = 3 -> "selection"
                         [] key - KeyZero = 4 -> "attack"
                         [] key - KeyZero = 5 -> "end"

\* C5 (amended): at the start of the frame after digit key k was pressed
\* the current mode is idle, calibrate, attack, end for k = 1, 2, 4, 5 and
\* attack for k = 3; selection is never the mode at the start of a frame.
C5_KeySetsModeOrAttack ==
    /\ pc = "read" => current_mode # "selection"
    /\ (pc = "read" /\ key - KeyZero \in 1..5) =>
          current_mode = CASE key - KeyZero = 1 -> "idle"
                           [] key - KeyZero = 2 -> "calibrate"
                           [] key - KeyZero = 3 -> "attack"
                           [] key - KeyZero = 4 -> "attack"
                           [] key - KeyZero = 5 -> "end"

\* C5 witness: key 3 was pressed, the selection ran, and the next frame
\* starts in attack mode.
C5_Witness ==
    /\ pc = "read"
    /\ key = KeyZero + 3
    /\ current_mode = "attack"
    /\ clock >= 1

LastAttemptFailed(w) == w # <<>> /\ ~w[Len(w)].ok

\* C6 (as claimed): a step in which sendto raises leaves current_mode,
\* selected_ids, last_send_time and the log as they were and continues the
\* main loop where a successful send would; the failed payload is not kept
\* for a retry, the payload a frame is about to send is computed from that
\* frame alone, and the next attack frame after a sendto that raised
\* attempts a fresh send.
C6_SendFailureIgnored ==
    /\ [][(Len(wire') = Len(wire) + 1 /\ LastAttemptFailed(wire'))
            => /\ UNCHANGED <<current_mode, selected_ids, last_send_time,
                              log, csv_writes>>
               /\ pending' = <<>>
               /\ pc' = CASE pc = "send" -> "key"
                           [] pc = "mode_send" /\ current_mode = "selection"
                                -> "sel_read"
                           [] OTHER -> "read"]_vars
    /\ [](pc = "send" =>
            pending = IF best # <<>>
                      THEN <<Uint8Of(2 * best[2] - width, width)>>
                      ELSE <<NoMarkerByte>>)
    /\ [][(pc = "read" /\ pc' \in {"send", "key"} /\ current_mode = "attack"
           /\ send_raised)
            => (pc' = "send" /\ Len(pending') = 1)]_vars

\* C7 (as claimed): once the camera failed to open or a frame read failed,
\* no datagram is sent any more.
C7_NoSendAfterCameraFailure ==
    [][failed # "none" => Len(wire') <= Len(wire)]_vars

\* C8: the log gains exactly one row, the best marker's, in a frame with a
\* qualifying marker and none in any other step; the CSV is written at
\* most once, only in the step after the main loop was left by key 'c' or
\* by a failed frame read, and exactly when the log is not empty.
C8_CsvLogging ==
    /\ [][IF pc = "read" /\ pc' \in {"send", "key"} /\ items' # <<>>
          THEN log' = Append(log, best')
          ELSE log' = log]_vars
    /\ [][csv_writes' # csv_writes =>
            (pc = "exit" /\ pc' = "done" /\ csv_writes = 0
             /\ log # <<>>)]_vars
    /\ [](pc = "exit" => (key = KeyQuit \/ failed = "read"))
    /\ [](pc # "done" => csv_writes = 0)
    /\ [][pc = "raised" => csv_writes' = csv_writes]_vars
    /\ [](pc = "done" => (csv_writes = 1 <=> log # <<>>))
    /\ [](csv_writes <= 1)

\* C8 witness: the run ended with two rows logged and the CSV written once.
C8_Witness ==
    /\ pc = "done"
    /\ Len(log) = 2
    /\ csv_writes = 1

\* C11: for every frame width and every marker offset, a delta of exactly 0
\* is encoded as 128, every negative delta as a byte strictly less than 128
\* and every positive delta as a byte strictly greater than 128.  `pending`
\* at "send" is the byte computed from the frame's best marker.
C11_DirectionEncoding ==
    (pc = "send" /\ best # <<>> /\ Len(pending) = 1) =>
        /\ best[3] = 0 => pending[1] = 128
        /\ best[3] < 0 => pending[1] < 128
        /\ best[3] > 0 => pending[1] > 128

IsModeByte(a, n) == a.port = udp_port_mode /\ a.payload = <<n>>

\* C13 (as claimed): pressing '3' first sends mode byte 3, then runs the selection UI
\* and replaces selected_ids with the typed IDs, then sets the mode to
\* attack and sends mode byte 4; the two mode datagrams are sent in that
\* order with no delta-port datagram between them, and no delta datagram
\* computed against the new selected_ids is sent before mode byte 4.
\* `wire` holds every sendto since the key poll.
C13_Key3Order ==
    /\ []((pc = "mode_send" /\ key = KeyZero + 3) =>
            (wire = <<>> /\ current_mode = "selection"))
    /\ [](pc \in {"sel_read", "sel_input", "attack_send"} =>
            /\ key = KeyZero + 3
            /\ Len(wire) = 1
            /\ IsModeByte(wire[1], 3)
            /\ current_mode = IF pc = "attack_send" THEN "attack"
                              ELSE "selection")
    /\ []((pc = "read" /\ key = KeyZero + 3) =>
            /\ Len(wire) = 2
            /\ IsModeByte(wire[1], 3)
            /\ IsModeByte(wire[2], 4)
            /\ current_mode = "attack")
    /\ [][(pc \in {"key", "mode_send", "sel_read"})
            => selected_ids' = selected_ids]_vars
    /\ [][(pc = "sel_input") =>
            (pc' = "attack_send" /\ current_mode' = "attack"
             /\ wire' = wire)]_vars

KeyNumberOf(mode) ==
    CASE mode = "idle" -> 1
      [] mode = "calibrate" -> 2
      [] mode = "selection" -> 3
      [] mode = "attack" -> 4
      [] mode = "end" -> 5

\* C14: every mode datagram is exactly one byte whose value is in 1..5 and
\* equals the key number of the mode just entered, and at the start of
\* every main-loop frame, if any mode datagram has been attempted so far,
\* the most recently attempted one encodes the current mode.
C14_ModeAnnouncements ==
    /\ \A i \in ModeAttempts :
          /\ Len(wire[i].payload) = 1
          /\ wire[i].payload[1] \in 1..5
          /\ wire[i].payload[1] = KeyNumberOf(wire[i].mode)
    /\ (pc = "read" /\ announced # 0) =>
          announced = KeyNumberOf(current_mode)
    /\ (pc = "read" /\ ModeAttempts # {}) =>
          \E i \in ModeAttempts :
              /\ \A j \in ModeAttempts : j <= i
              /\ announced = wire[i].payload[1]

\* C14 witness: key 5 was pressed after an earlier announcement and the
\* next frame starts in end mode with byte 5 as the latest announcement.
C14_Witness ==
    /\ pc = "read"
    /\ clock >= 2
    /\ current_mode = "end"
    /\ announced = 5
    /\ Len(wire) = 1
    /\ wire[1].payload = <<5>>

\* C15: in an attack frame whose best marker is a selected target with
\* |deltaX| < 5 that ID is removed from selected_ids and the delta of that
\* frame is still sent; selected_ids never gains an ID except by a key-3
\* selection; an ID that is not in selected_ids, removed ones included,
\* contributes no log row and no delta datagram in an attack frame.
C15_TargetRemoval ==
    /\ [][(pc = "read" /\ pc' \in {"send", "key"} /\ current_mode = "attack")
            => /\ best' # <<>> => best'[1] \in selected_ids
               /\ selected_ids' =
                     IF best' # <<>> /\ Abs(2 * best'[2] - width) < 2 * 5
                     THEN selected_ids \ {best'[1]}
                     ELSE selected_ids
               /\ log' = IF best' # <<>> THEN Append(log, best') ELSE log
               /\ \A i \in DOMAIN items' : items'[i][1] \in selected_ids
               /\ best' # <<>> =>
                     (pc' = "send"
                      /\ pending' = <<Uint8Of(2 * best'[2] - width, width)>>)
               /\ best' = <<>> => pending' \in {<<>>, <<NoMarkerByte>>}]_vars
    /\ [][pc # "sel_input" => selected_ids' \subseteq selected_ids]_vars
    /\ []((pc = "key" /\ current_mode = "attack" /\ best # <<>>) =>
            /\ Len(wire) = 1
            /\ wire[1].port = udp_port_deltax
            /\ wire[1].payload = <<Uint8Of(2 * best[2] - width, width)>>)

\* C15 witness: the best marker of an attack frame was within the
\* threshold, it is no longer selected, and its delta has been sent.
C15_Witness ==
    /\ pc = "key"
    /\ current_mode = "attack"
    /\ best # <<>>
    /\ Abs(best[3]) < 2 * DeadThreshold
    /\ best[1] \notin selected_ids
    /\ Len(wire) = 1
    /\ wire[1].ok

----------------------------------------------------------------------------
(* Claims about old/UDP_Receive.py *)

\* C12: every 1-byte datagram with value b in 0..255 is reported by
\* old/UDP_Receive as the unsigned integer b.
C12_SingleByteAsUint8 ==
    (pc = "recv" /\ Len(rx_data) = 1) =>
        (rx_report.kind = "uint8" /\ rx_report.val = rx_data[1])

----------------------------------------------------------------------------
(* Claims about UDP_Send_DirectionSwitch.py *)

IsSent(a) == a.ok

\* the datagrams that left the sender, in order
Transmitted == SelectSeq(wire, IsSent)

\* C9 (as claimed): every transmitted datagram is the single byte 1 or 0,
\* the first transmitted byte is 1, and consecutive transmitted datagrams
\* carry different values, also when some sendto calls raise.
C9_TransmittedAlternate ==
    /\ \A i \in DOMAIN Transmitted :
          Transmitted[i].payload \in {<<0>>, <<1>>}
    /\ Transmitted # <<>> => Transmitted[1].payload = <<1>>
    /\ \A i \in 1..(Len(Transmitted) - 1) :
          Transmitted[i].payload # Transmitted[i + 1].payload

----------------------------------------------------------------------------
(* Claims about old/Aruco_DeltaX_Test.py *)

\* C10 (as claimed): a frame that starts in a gamemode other than finding
\* or attack runs no detection and sends neither a delta nor the
\* no-marker sentinel.
C10_OldModeGating ==
    [][(pc = "read" /\ pc' \in {"send", "key"}
         /\ gamemode \notin {"finding", "attack"})
        => (~detect_ran' /\ pending' = <<>>)]_vars

\* "MODE:end"
ModeEndBytes == <<77, 79, 68, 69, 58, 101, 110, 100>>

\* the end switch of C16: a frame switches the gamemode to end exactly when
\* a selected marker was found in it, the selection is non-empty and every
\* selected target's dead flag is true; MODE:end is then sent unless end
\* was the last mode sent; the gamemode changes in no step other than a
\* frame or a key press.
EndSwitch ==
    /\ [][(pc = "read" /\ pc' \in {"send", "key"}) =>
            IF /\ items' # <<>>
               /\ selected_ids # {}
               /\ \A t \in selected_ids : t \in DOMAIN dead' /\ dead'[t]
            THEN /\ gamemode' = "end"
                 /\ last_gamemode' = "end"
                 /\ IF last_gamemode = "end" THEN wire' = <<>>
                    ELSE /\ Len(wire') = 1
                         /\ wire'[1].port = udp_port
                         /\ wire'[1].payload = ModeEndBytes
            ELSE /\ gamemode' = gamemode
                 /\ last_gamemode' = last_gamemode
                 /\ wire' = <<>>]_vars
    /\ [][gamemode' # gamemode => pc \in {"read", "key"}]_vars

\* C16 (as claimed): a target's dead flag is true exactly when the most
\* recent frame in which it was the best marker had -1 <= deltaX <= 1; and
\* the end switch.
C16_DeadFlagOfLastBestFrame ==
    /\ [](\A t \in DOMAIN dead : dead[t] <=> last_zone[t] = "in")
    /\ EndSwitch

\* C16 (amended): a target's dead flag is true exactly when the target was
\* the best marker of some frame since the selection that last set
\* selected_ids and the most recent such frame had -1 <= deltaX <= 1; and
\* the end switch.
C16_DeadFlagSinceSelection ==
    /\ [](\A t \in DOMAIN dead :
            dead[t] <=> (t \in best_since_sel /\ last_zone[t] = "in"))
    /\ [](DOMAIN dead = selected_ids)
    /\ EndSwitch

\* C16 witness: both selected targets were in the dead zone when last best
\* and the frame that completed this switched to end and sent MODE:end
\* without a key press for it.
C16_Witness ==
    /\ pc \in {"send", "key"}
    /\ selected_ids = Ids
    /\ \A t \in Ids : dead[t]
    /\ best # <<>>
    /\ gamemode = "end"
    /\ key # KeyZero + 5
    /\ wire # <<>>
    /\ wire[1].payload = ModeEndBytes

----------------------------------------------------------------------------
(* Claims about UDP_Receive_int32.py *)

\* C17: every delta-port datagram that Aruco_DeltaX_Test_V2 sends in its
\* uint8 format is exactly 1 byte long (a delta byte 0..254 or the sentinel
\* 255, to port 50002), so UDP_Receive_int32 classifies every one of them
\* as a short packet and never reports a deltaX value or the no-marker
\* sentinel for them; it reports a value only for datagrams of at least 4
\* bytes, decoding the first four as a big-endian signed int32 with
\* 0x7FFFFFFF meaning no marker.
C17_FormatMismatch ==
    /\ pc = "send" => (Len(pending) = 1 /\ pending[1] \in 0..255)
    /\ \A i \in DOMAIN wire :
          /\ wire[i].port = 50002
          /\ Len(wire[i].payload) = 1
          /\ wire[i].payload[1] \in 0..255
          /\ Int32Report(wire[i].payload).kind = "short"
    /\ rx_report.kind \in {"none", "short", "deltaX", "nomarker"}
    /\ rx_report.kind = "none" => rx_data = <<>>
    /\ (rx_report.kind # "none" /\ Len(rx_data) < 4) =>
          (rx_report.kind = "short" /\ rx_report.len = Len(rx_data))
    /\ Len(rx_data) >= 4 =>
          IF <<rx_data[1], rx_data[2], rx_data[3], rx_data[4]>>
                = <<127, 255, 255, 255>>
          THEN rx_report.kind = "nomarker"
          ELSE /\ rx_report.kind = "deltaX"
               /\ rx_report.val \in -2147483647 - 1 .. 2147483647
               /\ rx_report.val % 256 = rx_data[4]
               /\ (rx_report.val \div 256) % 256 = rx_data[3]
               /\ (rx_report.val \div 65536) % 256 = rx_data[2]
               /\ (rx_report.val \div 16777216) % 256 = rx_data[1]

\* C17 witness: the sentinel byte 255 of a frame without marker was sent,
\* delivered to the int32 receiver and reported as a short packet.
C17_Witness ==
    /\ pc = "key"
    /\ Len(wire) = 1
    /\ wire[1].ok
    /\ wire[1].payload = <<NoMarkerByte>>
    /\ rx_data = <<NoMarkerByte>>
    /\ rx_report.kind = "short"
    /\ rx_report.len = 1

============================================================================
